---- MODULE Spec2Model ----
(***************************************************************************)
(* Model of chart_manager.py: the CandlestickItem renderer and the         *)
(* ChartManager layout engine that drives a pyqtgraph GraphicsLayoutWidget,*)
(* and of finance_app.py, the window whose handlers drive the ChartManager *)
(* with what data_fetcher.py and indicator_calculator.py return.           *)
(*                                                                         *)
(* Numbers.  Timestamps are integer seconds.  Widths are kept exact as     *)
(* integers in twentieths of a second (w20 = 20 * w), horizontal pixel     *)
(* coordinates of the picture in fortieths (x40 = 40 * x) and view ranges  *)
(* in hundredths (r100 = 100 * r), so that 0.7 * median, w / 2 and the     *)
(* 1% / 2% paddings are all integers.                                      *)
(*                                                                         *)
(* Optional references (Python None or an object) are sequences of length  *)
(* at most one: <<>> is None and <<x>> is the object x.  References to     *)
(* objects that live on the layout surface are their position in the       *)
(* surface sequence, 0 standing for None.                                  *)
(*                                                                         *)
(* Console.  log holds the last line printed, without the values that the  *)
(* f-strings interpolate.                                                  *)
(*                                                                         *)
(* pyqtgraph.  GraphicsLayoutWidget.addPlot and addLabel add an item to    *)
(* the layout and leave the items already there, also at an occupied cell; *)
(* clear removes every item.  A view whose x axis is linked to another     *)
(* view shows the x range of that view.                                    *)
(***************************************************************************)
EXTENDS Integers, Sequences, FiniteSets, TLC

VARIABLES
    surface,          \* graphics_widget: items in the layout, in creation order
    ticker_label,     \* ChartManager.ticker_label
    price_plot,       \* ChartManager.price_plot      (surface position, 0 = None)
    volume_plot,      \* ChartManager.volume_plot     (surface position, 0 = None)
    indicator_plots,  \* ChartManager.indicator_plots (id -> handle)
    candlestick_item, \* ChartManager.candlestick_item (optional CandlestickItem)
    volume_item,      \* ChartManager.volume_item      (optional BarGraphItem)
    main_plot_dates,  \* ChartManager.main_plot_dates  (optional timestamp array)
    log,              \* the last line printed on the console
    data,             \* CandlestickItem.data    of a renderer driven on its own
    picture,          \* CandlestickItem.picture of that renderer
    raised,           \* the call of that renderer that let an exception escape
                      \* ("" when the last call returned)
    rect,             \* what boundingRect returned, when it was the last call
    configOptions,    \* pyqtgraph's process-wide options (pg.setConfigOption)
    current_data,     \* FinanceApp.current_data
    current_ticker,   \* FinanceApp.current_ticker
    indicators_config,\* FinanceApp.indicators_config
    status,           \* the message the status bar shows
    stack             \* the calls of finance_app.py in progress, innermost last

chartVars == <<surface, ticker_label, price_plot, volume_plot, indicator_plots,
               candlestick_item, volume_item, main_plot_dates>>
itemVars == <<data, picture, raised, rect>>
hostVars == <<configOptions, current_data, current_ticker, indicators_config,
              status, stack>>
vars == <<surface, ticker_label, price_plot, volume_plot, indicator_plots,
          candlestick_item, volume_item, main_plot_dates, log,
          data, picture, raised, rect,
          configOptions, current_data, current_ticker, indicators_config,
          status, stack>>

\* ------------------------------------------------------------------ bounds
MaxCandles == 3
MaxValues == 2
MaxItems == 3

\* --------------------------------------------------------------- constants
None == 0
NoObject == <<>>
Some(x) == <<x>>
NaN == -1

DAY == 86400
RequiredCols == {"Open", "High", "Low", "Close", "Volume"}

\* ----------------------------------------------------------------- helpers
Range(s) == {s[i] : i \in 1..Len(s)}

Min2(a, b) == IF a <= b THEN a ELSE b

Max2(a, b) == IF a >= b THEN a ELSE b

SetMin(S) == CHOOSE x \in S : \A y \in S : x <= y

SetMax(S) == CHOOSE x \in S : \A y \in S : x >= y

\* np.diff: adjacent differences of an array
Diff(ts) == [i \in 1..(Len(ts) - 1) |-> ts[i + 1] - ts[i]]

\* a filter that also lets zero differences through
IsPositive_NotNegative(d) == d >= 0

\* time_diffs[time_diffs > 0]
IsPositive(d) == d > 0

ValidDiffs(ts) == SelectSeq(Diff(ts), IsPositive)

RECURSIVE Insert(_, _)
Insert(x, s) ==
    IF s = <<>> THEN <<x>>
    ELSE IF x <= Head(s) THEN <<x>> \o s
    ELSE <<Head(s)>> \o Insert(x, Tail(s))

RECURSIVE Sort(_)
Sort(s) == IF s = <<>> THEN <<>> ELSE Insert(Head(s), Sort(Tail(s)))

\* np.median, doubled: the middle element of the sorted array counted twice,
\* or the sum of the two middle elements
Median2(s) ==
    LET srt == Sort(s)
        n == Len(s)
    IN IF n % 2 = 1 THEN 2 * srt[(n + 1) \div 2]
       ELSE srt[n \div 2] + srt[n \div 2 + 1]

\* ------------------------------------------------------- CandlestickItem
WidthFactor7 == 7

\* 86400 * width_factor, in twentieths
DefaultWidth20 == 2 * WidthFactor7 * DAY

\* 86400 * 5 * width_factor, in twentieths
CapWidth20 == 2 * WidthFactor7 * 5 * DAY

Timestamps(d) == [i \in 1..Len(d) |-> d[i].t]

\* generatePicture, "Calculate Candle Width": w, in twentieths
CandleWidth_NoDefault(d) ==
    IF Len(d) > 1 THEN
        LET valid_diffs == ValidDiffs(Timestamps(d))
        IN IF Len(valid_diffs) > 0
           THEN Min2(WidthFactor7 * Median2(valid_diffs), CapWidth20)
           ELSE 0
    ELSE IF Len(d) = 1 THEN DefaultWidth20
    ELSE 0

CandleWidth(d) ==
    IF Len(d) > 1 THEN
        LET valid_diffs == ValidDiffs(Timestamps(d))
        IN IF Len(valid_diffs) > 0
           THEN Min2(WidthFactor7 * Median2(valid_diffs), CapWidth20)
           ELSE DefaultWidth20
    ELSE IF Len(d) = 1 THEN DefaultWidth20
    ELSE 0

\* one drawing command recorded in the QPicture; x in fortieths
Line(pen, xa, ya, xb, yb) ==
    [cmd |-> "line", pen |-> pen, brush |-> "none",
     x1 |-> xa, y1 |-> ya, x2 |-> xb, y2 |-> yb]

Rect(pen, brush, left, top, width, height) ==
    [cmd |-> "rect", pen |-> pen, brush |-> brush,
     x1 |-> left, y1 |-> top, x2 |-> left + width, y2 |-> top + height]

\* a drawing loop without the branch for flat candles
DrawCandle_FlatAsDown(c, w20) ==
    LET is_up == c.c > c.o
        is_flat == c.c = c.o
        wick_pen == IF is_up \/ is_flat THEN "up" ELSE "down"
        body_top == Max2(c.o, c.c)
        body_bottom == Min2(c.o, c.c)
        rect_left == 40 * c.t - w20
        rect_width == 2 * w20
        rect_height == c.c - c.o
        body == IF is_up THEN Rect("up", "none", rect_left, c.o, rect_width, rect_height)
                ELSE Rect("none", "down", rect_left, c.o, rect_width, rect_height)
    IN << Line(wick_pen, 40 * c.t, c.h, 40 * c.t, body_top),
          Line(wick_pen, 40 * c.t, c.l, 40 * c.t, body_bottom),
          body >>

\* generatePicture, "Draw Each Candle": the three commands of one candle
DrawCandle(c, w20) ==
    LET is_up == c.c > c.o
        is_flat == c.c = c.o
        wick_pen == IF is_up \/ is_flat THEN "up" ELSE "down"
        body_top == Max2(c.o, c.c)
        body_bottom == Min2(c.o, c.c)
        rect_left == 40 * c.t - w20
        rect_width == 2 * w20
        rect_height == c.c - c.o
        body == IF is_up THEN Rect("up", "none", rect_left, c.o, rect_width, rect_height)
                ELSE IF is_flat THEN Line("down", rect_left, c.o, rect_left + rect_width, c.o)
                ELSE Rect("none", "down", rect_left, c.o, rect_width, rect_height)
    IN << Line(wick_pen, 40 * c.t, c.h, 40 * c.t, body_top),
          Line(wick_pen, 40 * c.t, c.l, 40 * c.t, body_bottom),
          body >>

RECURSIVE DrawAll(_, _)
DrawAll(d, w20) ==
    IF d = <<>> THEN <<>> ELSE DrawCandle(Head(d), w20) \o DrawAll(Tail(d), w20)

\* d['t'], d['o'], ... : a KeyError unless the candle has the keys
CandleKeys == {"t", "o", "h", "l", "c"}

HasKeys(c, keys) == keys \subseteq DOMAIN c

\* generatePicture, "Calculate Candle Width": the timestamps of two or more
\* candles are read before anything is drawn
RaisesInWidth(d) == Len(d) > 1 /\ \E i \in 1..Len(d) : ~HasKeys(d[i], {"t"})

\* generatePicture, "Draw Each Candle": the first candle that cannot be
\* unpacked (0 when every candle has its five keys)
FirstMalformed(d) ==
    LET bad == {i \in 1..Len(d) : ~HasKeys(d[i], CandleKeys)}
    IN IF bad = {} THEN 0 ELSE SetMin(bad)

\* generatePicture lets a KeyError escape: it has no exception handler
generatePictureRaises(d) ==
    d # <<>> /\ (RaisesInWidth(d) \/ FirstMalformed(d) # 0)

\* generatePicture: the QPicture built from the data (w is 0 for no data);
\* ended tells whether the painter was ended, which it is not when a
\* KeyError escapes, the picture then holding what was drawn before it
generatePicture(d) ==
    IF d = <<>> THEN [w |-> 0, cmds |-> <<>>, ended |-> TRUE]
    ELSE IF RaisesInWidth(d) THEN [w |-> 0, cmds |-> <<>>, ended |-> FALSE]
    ELSE LET w == CandleWidth(d)
             bad == FirstMalformed(d)
         IN IF bad # 0
            THEN [w |-> w, cmds |-> DrawAll(SubSeq(d, 1, bad - 1), w), ended |-> FALSE]
            ELSE [w |-> w, cmds |-> DrawAll(d, w), ended |-> TRUE]

\* QRectF(left, top, width, height); left and width in fortieths
QRectF(left, top, width, height) ==
    [left |-> left, top |-> top, width |-> width, height |-> height]

\* QRectF(): the null rectangle
NullRect == QRectF(0, 0, 0, 0)

\* boundingRect: an exception inside its try block, a KeyError from reading
\* 't', 'h' or 'l', or w_factor read before assignment when two or more
\* candles have no positive timestamp difference
boundingRectRaises(d) ==
    \/ \E i \in 1..Len(d) : ~HasKeys(d[i], {"t", "h", "l"})
    \/ Len(d) > 1 /\ Len(ValidDiffs(Timestamps(d))) = 0

\* boundingRect, w_factor in twentieths, where it is assigned
w_factor(d) ==
    IF Len(d) > 1
    THEN Min2(WidthFactor7 * Median2(ValidDiffs(Timestamps(d))), CapWidth20)
    ELSE DefaultWidth20

\* CandlestickItem.boundingRect: the rectangle returned
boundingRect(d) ==
    IF d = <<>> THEN NullRect
    ELSE IF boundingRectRaises(d) THEN NullRect
    ELSE LET min_t == SetMin({d[i].t : i \in 1..Len(d)})
             max_t == SetMax({d[i].t : i \in 1..Len(d)})
             min_l == SetMin({d[i].l : i \in 1..Len(d)})
             max_h == SetMax({d[i].h : i \in 1..Len(d)})
             height == max_h - min_l
         IN QRectF(40 * min_t - w_factor(d), min_l,
                   40 * (max_t - min_t) + 2 * w_factor(d),
                   IF height < 1 THEN 1 ELSE height)

\* CandlestickItem(data): the object after __init__
CandlestickItem(d) == [data |-> d, picture |-> Some(generatePicture(d))]

\* ---------------------------------------------------- layout surface items
\* An item of the GraphicsLayoutWidget: a label or a PlotItem.  A PlotItem keeps
\* the row it was added at, the plot its x axis is linked to (0 = none), its
\* visible x range (hundredths), whether y auto-range is on, the graphics item
\* added to it and the curves plotted on it.
DefaultRange == <<0, 100>>

Label(text, row) ==
    [kind |-> "label", row |-> row, text |-> text, left |-> "", xlink |-> None,
     xrange |-> <<0, 0>>, autoY |-> FALSE, item |-> "", curves |-> <<>>]

\* graphics_widget.addPlot(row=..., col=0): a new PlotItem with default view
PlotItem(kind, row, title) ==
    [kind |-> kind, row |-> row, text |-> title, left |-> "", xlink |-> None,
     xrange |-> DefaultRange, autoY |-> TRUE, item |-> "", curves |-> <<>>]

\* a PlotDataItem: plot(x=..., y=..., pen=mkPen(color, width), name=...)
Curve(x, y, color, width, name) ==
    [x |-> x, y |-> y, color |-> color, width |-> width, name |-> name]

\* a link call that is left out
setXLink_Forgotten(surf, p, target) == surf

\* plot.setXLink(target): the view follows the target's x range from now on
setXLink(surf, p, target) ==
    [surf EXCEPT ![p].xlink = target, ![p].xrange = surf[target].xrange]

\* plot.setXRange(a, b, padding=pad%): the range of the plot, and of every
\* plot on the surface whose x axis is linked to it.  A request of zero span
\* is widened to the span the view had (to 1 when that was zero) before the
\* padding is added.
setXRange(surf, p, a, b, pad) ==
    LET mn == Min2(a, b)
        mx == Max2(a, b)
        old == surf[p].xrange[2] - surf[p].xrange[1]
        dy == IF old = 0 THEN 100 ELSE old
        lo == IF mn = mx THEN 100 * mn - dy \div 2 ELSE 100 * mn
        hi == IF mn = mx THEN 100 * mx + dy \div 2 ELSE 100 * mx
        r == <<lo - (pad * (hi - lo)) \div 100, hi + (pad * (hi - lo)) \div 100>>
    IN [i \in 1..Len(surf) |->
          IF i = p \/ (surf[i].kind # "label" /\ surf[i].xlink = p)
          THEN [surf[i] EXCEPT !.xrange = r]
          ELSE surf[i]]

\* plot.enableAutoRange(axis='y', enable=True)
enableAutoRange(surf, p) == [surf EXCEPT ![p].autoY = TRUE]

\* plot.addItem(item)
addItem(surf, p, name) == [surf EXCEPT ![p].item = name]

\* plot.plot(...): appends a curve to the plot
plot(surf, p, curve) == [surf EXCEPT ![p].curves = Append(@, curve)]

\* handles stored in indicator_plots: a PlotDataItem drawn on a plot (overlay)
\* or a PlotItem of the surface (subplot)
CurveHandle(p, k) == [isPlotItem |-> FALSE, plot |-> p, curve |-> k]

\* a subplot stored as if it were the first curve of its row
PlotHandle_Curve(p) == [isPlotItem |-> FALSE, plot |-> p, curve |-> 1]

PlotHandle(p) == [isPlotItem |-> TRUE, plot |-> p, curve |-> 0]

\* an assignment that keeps the value a key already has (dict.setdefault)
DictSet_KeepExisting(d, key, value) ==
    [k \in (DOMAIN d) \cup {key} |-> IF k \in DOMAIN d THEN d[k] ELSE value]

\* dict assignment d[key] = value
DictSet(d, key, value) ==
    [k \in (DOMAIN d) \cup {key} |-> IF k = key THEN value ELSE d[k]]

EmptyDict == [k \in {} |-> 0]

\* -------------------------------------------------------------- DataFrame
\* A DataFrame argument: None, or a table with an index (instants in
\* milliseconds since the epoch, UTC), a flag telling whether the index is a
\* DatetimeIndex, the set of its columns and one record per row.
NoneFrame ==
    [isNone |-> TRUE, isDatetimeIndex |-> FALSE, index |-> <<>>,
     columns |-> {}, rows |-> <<>>]

DataFrame(isDt, index, columns, rows) ==
    [isNone |-> FALSE, isDatetimeIndex |-> isDt, index |-> index,
     columns |-> columns, rows |-> rows]

\* data.empty: no rows or no columns
IsEmptyFrame(df) == Len(df.index) = 0 \/ df.columns = {}

\* index.tz_convert/tz_localize('UTC').astype(np.int64) // 10**9 : whole
\* seconds since the epoch (the model's instants are milliseconds)
ToUnixSeconds(index) == [i \in 1..Len(index) |-> index[i] \div 1000]

\* a missing-value test that never recognises a missing value
isnull_Never(v) == FALSE

\* pd.Series.isnull()
isnull(v) == v = NaN

\* values.isnull().all()
AllNull(values) == \A i \in 1..Len(values) : isnull(values[i])

NotNull(v) == ~isnull(v)

\* values.dropna().values
dropna(values) == SelectSeq(values, NotNull)

\* a selection that takes the leading timestamps instead of the masked ones
MaskSelect_Prefix(dates, values) == SubSeq(dates, 1, Len(SelectSeq(values, NotNull)))

\* main_plot_dates[~values.isnull()] : boolean-mask selection by position
RECURSIVE MaskSelect(_, _)
MaskSelect(dates, values) ==
    IF dates = <<>> \/ values = <<>> THEN <<>>
    ELSE IF isnull(Head(values)) THEN MaskSelect(Tail(dates), Tail(values))
    ELSE <<Head(dates)>> \o MaskSelect(Tail(dates), Tail(values))

\* ------------------------------------------------------------ ChartManager
\* the built-in print: one more line on the console
print(line) == log' = line

\* plot_stock_data, "Add Volume Bar Item": bar_width, in twentieths
BarWidth(dates) ==
    IF Len(dates) > 1 THEN
        LET valid_diffs == ValidDiffs(dates)
        IN IF Len(valid_diffs) > 0
           THEN Min2(WidthFactor7 * Median2(valid_diffs), CapWidth20)
           ELSE 0
    ELSE IF Len(dates) = 1 THEN DefaultWidth20
    ELSE 0

\* ChartManager.__init__, "Basic pyqtgraph configuration"
ConfiguredByChartManager ==
    [background |-> "w", foreground |-> "k", antialias |-> TRUE]

\* a ChartManager driven on its own: no FinanceApp around it
NoHost ==
    /\ configOptions = ConfiguredByChartManager
    /\ current_data = NoneFrame
    /\ current_ticker = ""
    /\ indicators_config = <<>>
    /\ status = <<>>
    /\ stack = <<>>

\* ChartManager.__init__ (with a GraphicsLayoutWidget)
ChartManagerInit ==
    /\ surface = <<>>
    /\ ticker_label = ""
    /\ price_plot = None
    /\ volume_plot = None
    /\ indicator_plots = EmptyDict
    /\ candlestick_item = NoObject
    /\ volume_item = NoObject
    /\ main_plot_dates = NoObject
    /\ log = "ChartManager initialized."

\* a clear that forgets the remembered timestamps
clear_chart_KeepsDates ==
    /\ print("Clearing chart...")
    /\ surface' = <<>>
    /\ price_plot' = None
    /\ volume_plot' = None
    /\ indicator_plots' = EmptyDict
    /\ candlestick_item' = NoObject
    /\ volume_item' = NoObject
    /\ ticker_label' = ""
    /\ UNCHANGED main_plot_dates

\* a clear that resets the references but leaves the surface as it is
clear_chart_KeepsSurface ==
    /\ print("Clearing chart...")
    /\ price_plot' = None
    /\ volume_plot' = None
    /\ indicator_plots' = EmptyDict
    /\ candlestick_item' = NoObject
    /\ volume_item' = NoObject
    /\ ticker_label' = ""
    /\ main_plot_dates' = NoObject
    /\ UNCHANGED surface

\* a clear that leaves the handle map as it is
clear_chart_KeepsHandles ==
    /\ print("Clearing chart...")
    /\ surface' = <<>>
    /\ price_plot' = None
    /\ volume_plot' = None
    /\ candlestick_item' = NoObject
    /\ volume_item' = NoObject
    /\ ticker_label' = ""
    /\ main_plot_dates' = NoObject
    /\ UNCHANGED indicator_plots

\* ChartManager.clear_chart
clear_chart ==
    /\ print("Clearing chart...")
    /\ surface' = <<>>
    /\ price_plot' = None
    /\ volume_plot' = None
    /\ indicator_plots' = EmptyDict
    /\ candlestick_item' = NoObject
    /\ volume_item' = NoObject
    /\ ticker_label' = ""
    /\ main_plot_dates' = NoObject

\* plot_stock_data, "Pre-checks": data is None or data.empty
PlotRejectsEmpty(df) == df.isNone \/ IsEmptyFrame(df)

\* a preparation step that checks the index type only
PlotRaisesInPreparation_IndexOnly(df) == ~df.isDatetimeIndex

\* plot_stock_data, "Data Preparation": the conditions that raise ValueError
PlotRaisesInPreparation(df) ==
    \/ ~df.isDatetimeIndex
    \/ ~(RequiredCols \subseteq df.columns)

\* plot_stock_data, "Data Preparation": the list handed to CandlestickItem
CandlestickData(df, dates) ==
    [i \in 1..Len(df.rows) |->
        [t |-> dates[i], o |-> df.rows[i].Open, h |-> df.rows[i].High,
         l |-> df.rows[i].Low, c |-> df.rows[i].Close]]

\* a plot that starts from a cleared surface
PlotBaseSurface_Cleared(surf, dates, ticker) ==
    LET s1 == <<[PlotItem("price", 0, <<>>) EXCEPT !.left = "Price"]>>
        s2 == Append(s1, [PlotItem("volume", 1, <<>>) EXCEPT !.left = "Volume"])
        s3 == [s2 EXCEPT ![2].xlink = 1, ![1].item = "CandlestickItem",
                         ![2].item = "BarGraphItem",
                         ![1].text = <<ticker, "- Price and Indicators">>]
    IN setXRange(s3, 1, dates[1], dates[Len(dates)], 2)

\* plot_stock_data, from "Create Plot Areas" on: the surface with the two rows
PlotBaseSurface(surf, dates, ticker) ==
    LET p == Len(surf) + 1
        v == Len(surf) + 2
        s1 == Append(surf, [PlotItem("price", 0, <<>>) EXCEPT !.left = "Price"])
        s2 == Append(s1, [PlotItem("volume", 1, <<>>) EXCEPT !.left = "Volume"])
        s3 == setXLink(s2, v, p)
        s4 == addItem(s3, p, "CandlestickItem")
        s5 == addItem(s4, v, "BarGraphItem")
        s6 == [s5 EXCEPT ![p].text = <<ticker, "- Price and Indicators">>]
        s7 == setXRange(s6, p, dates[1], dates[Len(dates)], 2)
    IN enableAutoRange(enableAutoRange(s7, p), v)

\* ChartManager.plot_stock_data
plot_stock_data(df, ticker) ==
    IF PlotRejectsEmpty(df) THEN
        /\ print("ChartManager: No stock data provided to plot.")
        /\ surface' = Append(surface, Label(<<"No data available for", ticker>>, 0))
        /\ UNCHANGED <<ticker_label, price_plot, volume_plot, indicator_plots,
                       candlestick_item, volume_item, main_plot_dates>>
    ELSE IF PlotRaisesInPreparation(df) THEN
        /\ print("Error preparing stock data for plotting")
        /\ ticker_label' = ticker
        /\ surface' = Append(surface, Label(<<"Error preparing data for", ticker>>, 0))
        /\ UNCHANGED <<price_plot, volume_plot, indicator_plots,
                       candlestick_item, volume_item, main_plot_dates>>
    ELSE
        LET dates == ToUnixSeconds(df.index)
            volume_values == [i \in 1..Len(df.rows) |-> df.rows[i].Volume]
        IN /\ print("Main stock data plotted successfully (Candlestick & Volume).")
           /\ ticker_label' = ticker
           /\ main_plot_dates' = Some(dates)
           /\ price_plot' = Len(surface) + 1
           /\ volume_plot' = Len(surface) + 2
           /\ candlestick_item' = Some(CandlestickItem(CandlestickData(df, dates)))
           /\ volume_item' = Some([x |-> dates, height |-> volume_values,
                                   width |-> BarWidth(dates)])
           /\ surface' = PlotBaseSurface(surface, dates, ticker)
           /\ UNCHANGED indicator_plots

\* a length test that rejects only a series shorter than the dates
LengthMismatch_TooShort(values) ==
    main_plot_dates = NoObject \/ Len(main_plot_dates[1]) > Len(values)

\* add_overlay_indicator / add_subplot_indicator, "Pre-checks": the length test
LengthMismatch(values) ==
    main_plot_dates = NoObject \/ Len(main_plot_dates[1]) # Len(values)

\* "Prepare Data for Plotting (handle NaNs)"
dates_to_plot(values) == MaskSelect(main_plot_dates[1], values)

values_to_plot(values) == dropna(values)

\* ChartManager.add_overlay_indicator
add_overlay_indicator(indicator_id, values, name, color, width) ==
    IF price_plot = None THEN
        /\ print("Warning (Overlay): Cannot add overlay. Main price plot does not exist.")
        /\ UNCHANGED chartVars
    ELSE IF LengthMismatch(values) THEN
        /\ print("Warning (Overlay): Mismatched data lengths or missing main plot dates.")
        /\ UNCHANGED chartVars
    ELSE IF AllNull(values) THEN
        /\ print("Warning (Overlay): All indicator values are NaN, skipping plot.")
        /\ UNCHANGED chartVars
    ELSE IF Len(dates_to_plot(values)) = 0 THEN
        /\ print("Warning (Overlay): No valid (non-NaN) data points to plot.")
        /\ UNCHANGED chartVars
    ELSE
        /\ print("Adding overlay indicator")
        /\ surface' = plot(surface, price_plot,
                           Curve(dates_to_plot(values), values_to_plot(values),
                                 color, width, name))
        /\ indicator_plots' =
              DictSet(indicator_plots, indicator_id,
                      CurveHandle(price_plot, Len(surface[price_plot].curves) + 1))
        /\ UNCHANGED <<ticker_label, price_plot, volume_plot, candlestick_item,
                       volume_item, main_plot_dates>>

\* add_subplot_indicator, from "Create New PlotItem for the Subplot" on
SubplotSurface(surf, target, values, name, y_label, row_index, color, width) ==
    LET n == Len(surf) + 1
        s1 == Append(surf, [PlotItem("indicator", row_index, <<name>>)
                               EXCEPT !.left = y_label])
        s2 == plot(s1, n, Curve(dates_to_plot(values), values_to_plot(values),
                                color, width, ""))
    IN setXLink(s2, n, target)

\* a subplot call that shows its first warning on the surface
add_subplot_indicator_Labels(indicator_id, values, name, y_label, row_index, color, width) ==
    IF price_plot = None THEN
        /\ print("Warning (Subplot): Cannot add subplot. Main price plot does not exist.")
        /\ surface' = Append(surface, Label(<<"Cannot add subplot", name>>, row_index))
        /\ UNCHANGED <<ticker_label, price_plot, volume_plot, indicator_plots,
                       candlestick_item, volume_item, main_plot_dates>>
    ELSE IF LengthMismatch(values) THEN
        /\ print("Warning (Subplot): Mismatched data lengths or missing main plot dates.")
        /\ UNCHANGED chartVars
    ELSE IF AllNull(values) THEN
        /\ print("Warning (Subplot): All indicator values are NaN, skipping plot.")
        /\ UNCHANGED chartVars
    ELSE IF Len(dates_to_plot(values)) = 0 THEN
        /\ print("Warning (Subplot): No valid (non-NaN) data points to plot.")
        /\ UNCHANGED chartVars
    ELSE
        /\ print("Adding subplot indicator")
        /\ surface' = SubplotSurface(surface, price_plot, values, name, y_label,
                                     row_index, color, width)
        /\ indicator_plots' =
              DictSet(indicator_plots, indicator_id, PlotHandle(Len(surface) + 1))
        /\ UNCHANGED <<ticker_label, price_plot, volume_plot, candlestick_item,
                       volume_item, main_plot_dates>>

\* ChartManager.add_subplot_indicator
add_subplot_indicator(indicator_id, values, name, y_label, row_index, color, width) ==
    IF price_plot = None THEN
        /\ print("Warning (Subplot): Cannot add subplot. Main price plot does not exist.")
        /\ UNCHANGED chartVars
    ELSE IF LengthMismatch(values) THEN
        /\ print("Warning (Subplot): Mismatched data lengths or missing main plot dates.")
        /\ UNCHANGED chartVars
    ELSE IF AllNull(values) THEN
        /\ print("Warning (Subplot): All indicator values are NaN, skipping plot.")
        /\ UNCHANGED chartVars
    ELSE IF Len(dates_to_plot(values)) = 0 THEN
        /\ print("Warning (Subplot): No valid (non-NaN) data points to plot.")
        /\ UNCHANGED chartVars
    ELSE
        /\ print("Adding subplot indicator")
        /\ surface' = SubplotSurface(surface, price_plot, values, name, y_label,
                                     row_index, color, width)
        /\ indicator_plots' =
              DictSet(indicator_plots, indicator_id, PlotHandle(Len(surface) + 1))
        /\ UNCHANGED <<ticker_label, price_plot, volume_plot, candlestick_item,
                       volume_item, main_plot_dates>>

\* a loop that enables nothing
EnableAll_None(surf, ps) == surf

\* set_view_range: y auto-range re-enabled on every PlotItem in indicator_plots
RECURSIVE EnableAll(_, _)
EnableAll(surf, ps) ==
    IF ps = {} THEN surf
    ELSE LET p == CHOOSE q \in ps : TRUE
         IN EnableAll(enableAutoRange(surf, p), ps \ {p})

SubplotRefs ==
    {indicator_plots[k].plot : k \in {j \in DOMAIN indicator_plots :
                                        indicator_plots[j].isPlotItem}}

\* ChartManager.set_view_range
set_view_range(start_ts, end_ts) ==
    IF price_plot # None THEN
        /\ print("Setting view range")
        /\ surface' =
              LET s1 == setXRange(surface, price_plot, start_ts, end_ts, 1)
                  s2 == enableAutoRange(s1, price_plot)
                  s3 == IF volume_plot # None THEN enableAutoRange(s2, volume_plot)
                        ELSE s2
              IN EnableAll(s3, SubplotRefs)
        /\ UNCHANGED <<ticker_label, price_plot, volume_plot, indicator_plots,
                       candlestick_item, volume_item, main_plot_dates>>
    ELSE
        UNCHANGED <<chartVars, log>>

\* a setData that keeps a picture it already has
setData_KeepsCache(d) ==
    /\ data' = d
    /\ picture' = IF picture = NoObject THEN Some(generatePicture(d)) ELSE picture
    /\ raised' = IF generatePictureRaises(d) THEN "setData" ELSE ""
    /\ rect' = NoObject

\* CandlestickItem.setData
setData(d) ==
    /\ data' = d
    /\ picture' = Some(generatePicture(d))
    /\ raised' = IF generatePictureRaises(d) THEN "setData" ELSE ""
    /\ rect' = NoObject

\* CandlestickItem.paint: regenerates the picture only when there is none
paint ==
    /\ picture' = IF picture = NoObject THEN Some(generatePicture(data)) ELSE picture
    /\ raised' = IF picture = NoObject /\ generatePictureRaises(data)
                 THEN "paint" ELSE ""
    /\ rect' = NoObject
    /\ UNCHANGED data

\* CandlestickItem.boundingRect as a call: it returns boundingRect(data) and
\* prints when an exception was caught
boundingRectCall ==
    /\ IF data # <<>> /\ boundingRectRaises(data)
       THEN print("Error calculating bounding rect for CandlestickItem")
       ELSE UNCHANGED log
    /\ rect' = Some(boundingRect(data))
    /\ raised' = ""
    /\ UNCHANGED <<data, picture>>

\* ------------------------------------------------------------------ inputs
Tickers == {"AAA"}

IndicatorIds == {"sma_2", "rsi_2"}

RowIndexes == {2}

ViewStarts == {0}

ViewEnds == {DAY}

SeqsUpTo(S, n) == UNION {[1..k -> S] : k \in 0..n}

\* indicator series: each position is missing or holds a value that is
\* different at every position
ValueAt(i) == 10 * i

Series ==
    {[i \in 1..k |-> IF i \in M THEN NaN ELSE ValueAt(i)] :
        k \in 0..MaxValues, M \in SUBSET (1..MaxValues)}

\* the name, color and line width the host passes for an indicator id
NameOf(id) == IF id = "sma_2" THEN "SMA(2)" ELSE "RSI(2)"

ColorOf(id) == IF id = "sma_2" THEN "orange" ELSE "purple"

\* index instants (milliseconds): one bar; two bars a day apart, the later first
Indexes ==
    { <<0>>,
      <<1000 * DAY, 500>> }

RowsFor(index) ==
    [i \in 1..Len(index) |->
        [Open |-> 10, High |-> 12, Low |-> 9, Close |-> 9 + i, Volume |-> 100 * i]]

ValidFrames == {DataFrame(TRUE, ix, RequiredCols, RowsFor(ix)) : ix \in Indexes}

RejectedFrames ==
    { NoneFrame,
      DataFrame(TRUE, <<>>, RequiredCols, <<>>),
      DataFrame(FALSE, <<0>>, RequiredCols, RowsFor(<<0>>)),
      DataFrame(TRUE, <<0>>, RequiredCols \ {"Volume"}, RowsFor(<<0>>)) }

Frames == ValidFrames \cup RejectedFrames

\* the number of drawing calls that left something on the surface since it
\* was last cleared: placeholder labels, base plots (a price row with its
\* volume row), indicator rows and overlay curves
RECURSIVE NumDrawnOn(_)
NumDrawnOn(surf) ==
    IF surf = <<>> THEN 0
    ELSE (IF Head(surf).kind = "volume" THEN 0
          ELSE IF Head(surf).kind = "price" THEN 1 + Len(Head(surf).curves)
          ELSE 1)
         + NumDrawnOn(Tail(surf))

NumDrawn == NumDrawnOn(surface)

\* ------------------------------------------------- layout engine behaviours
Init ==
    /\ ChartManagerInit
    /\ data = <<>>
    /\ picture = NoObject
    /\ raised = ""
    /\ rect = NoObject
    /\ NoHost

Clear == clear_chart /\ UNCHANGED <<itemVars, hostVars>>

PlotBase ==
    \E df \in Frames, ticker \in Tickers :
        /\ plot_stock_data(df, ticker)
        /\ NumDrawn' <= MaxItems
        /\ UNCHANGED <<itemVars, hostVars>>

AddOverlay ==
    \E id \in IndicatorIds, values \in Series :
        /\ add_overlay_indicator(id, values, NameOf(id), ColorOf(id), 2)
        /\ NumDrawn' <= MaxItems
        /\ UNCHANGED <<itemVars, hostVars>>

AddSubplot ==
    \E id \in IndicatorIds, values \in Series, row_index \in RowIndexes :
        /\ add_subplot_indicator(id, values, NameOf(id), "RSI", row_index, "cyan", 1)
        /\ NumDrawn' <= MaxItems
        /\ UNCHANGED <<itemVars, hostVars>>

SetVisibleRange ==
    \E start_ts \in ViewStarts, end_ts \in ViewEnds :
        /\ set_view_range(start_ts, end_ts)
        /\ UNCHANGED <<itemVars, hostVars>>

Next == Clear \/ PlotBase \/ AddOverlay \/ AddSubplot \/ SetVisibleRange

Spec == Init /\ [][Next]_vars

\* --------------------------------------------- the chart with a user on it
\* One table of one row and the indicator series of its length
OneDay == DataFrame(TRUE, <<0>>, RequiredCols, RowsFor(<<0>>))

OneValue == <<ValueAt(1)>>

PlotOneDay ==
    \E ticker \in Tickers :
        /\ plot_stock_data(OneDay, ticker)
        /\ NumDrawn' <= MaxItems
        /\ UNCHANGED <<itemVars, hostVars>>

OverlayOneValue ==
    \E id \in IndicatorIds :
        /\ add_overlay_indicator(id, OneValue, NameOf(id), ColorOf(id), 2)
        /\ NumDrawn' <= MaxItems
        /\ UNCHANGED <<itemVars, hostVars>>

SubplotOneValue ==
    \E id \in IndicatorIds, row_index \in RowIndexes :
        /\ add_subplot_indicator(id, OneValue, NameOf(id), "RSI", row_index, "cyan", 1)
        /\ NumDrawn' <= MaxItems
        /\ UNCHANGED <<itemVars, hostVars>>

\* The rows have the mouse enabled: the user drags a row up or down, which
\* sets its y range by hand and so turns off its y auto-range.
UserDrag ==
    /\ \E i \in 1..Len(surface) :
          /\ surface[i].kind # "label"
          /\ surface[i].autoY
          /\ surface' = [surface EXCEPT ![i].autoY = FALSE]
    /\ UNCHANGED <<ticker_label, price_plot, volume_plot, indicator_plots,
                   candlestick_item, volume_item, main_plot_dates, log>>
    /\ UNCHANGED <<itemVars, hostVars>>

NextView ==
    Clear \/ PlotOneDay \/ OverlayOneValue \/ SubplotOneValue \/ SetVisibleRange
        \/ UserDrag

SpecView == Init /\ [][NextView]_vars

\* ------------------------------------------ tables of three bars, one day
\* apart: in time order, and with the latest bar in the middle
ThreeDayIndexes ==
    { <<0, 1000 * DAY, 2000 * DAY>>,
      <<0, 2000 * DAY, 1000 * DAY>> }

ThreeDays == {DataFrame(TRUE, ix, RequiredCols, RowsFor(ix)) : ix \in ThreeDayIndexes}

PlotThreeDays ==
    \E df \in ThreeDays, ticker \in Tickers :
        /\ plot_stock_data(df, ticker)
        /\ NumDrawn' <= MaxItems
        /\ UNCHANGED <<itemVars, hostVars>>

NextWindow == Clear \/ PlotThreeDays \/ SetVisibleRange \/ UserDrag

SpecWindow == Init /\ [][NextWindow]_vars

\* ------------------------------------------- a CandlestickItem on its own
\* open/high/low/close of an up, a down and a flat candle
Up == [o |-> 10, h |-> 12, l |-> 9, c |-> 11]
Down == [o |-> 11, h |-> 11, l |-> 10, c |-> 10]
Flat == [o |-> 10, h |-> 10, l |-> 10, c |-> 10]

\* a down candle whose low is above its high
Inverted == [Down EXCEPT !.h = 9, !.l = 12]

Candle(t, s) == [t |-> t, o |-> s.o, h |-> s.h, l |-> s.l, c |-> s.c]

\* a candle dictionary without one of its keys
Without(c, key) == [k \in DOMAIN c \ {key} |-> c[k]]

\* stamps one day and more than five days apart (a series may repeat a
\* candle, and so a stamp); a candle with low above high and a candle that
\* lacks a key
Candles ==
    { Candle(0, Up), Candle(DAY, Flat), Candle(9 * DAY, Inverted),
      Without(Candle(0, Up), "c") }

CandleSeries == SeqsUpTo(Candles, MaxCandles)

\* CandlestickItem.__init__(data)
InitItem ==
    /\ ChartManagerInit
    /\ \E d \in CandleSeries :
          /\ data = d
          /\ picture = Some(generatePicture(d))
          /\ raised = IF generatePictureRaises(d) THEN "__init__" ELSE ""
    /\ rect = NoObject
    /\ NoHost

\* there is no renderer to call when its construction raised
SetData ==
    /\ raised # "__init__"
    /\ \E d \in CandleSeries : setData(d) /\ UNCHANGED <<chartVars, log, hostVars>>

Paint == raised # "__init__" /\ paint /\ UNCHANGED <<chartVars, log, hostVars>>

BoundingRect == raised # "__init__" /\ boundingRectCall /\ UNCHANGED <<chartVars, hostVars>>

NextItem == SetData \/ Paint \/ BoundingRect

SpecItem == InitItem /\ [][NextItem]_vars

\* ================================================================ the host
\* finance_app.py.  A call in progress is a frame: the function, the line it
\* is at and its locals.  main waits in app.exec() (line 386); a handler that
\* called QApplication.processEvents() waits at that line (249, 268, 308).
\* Qt is single-threaded: only the innermost call runs, and a click reaches
\* its handler only from an event loop, that is from app.exec() or from a
\* processEvents() of a handler in progress.  indicator_results is written
\* and never read, and is left out.
MaxNested == 2

Frame(fn, pc, ticker, indicator_id) ==
    [fn |-> fn, pc |-> pc, ticker |-> ticker, indicator_id |-> indicator_id,
     i |-> 0, next_subplot_row |-> 0]

Top == stack[Len(stack)]

Pop == SubSeq(stack, 1, Len(stack) - 1)

SetTop(f) == [stack EXCEPT ![Len(stack)] = f]

\* a frame under which Qt dispatches events whatever line it is at
AtPump_Anywhere(f) == TRUE

\* a frame that waits in an event loop: app.exec() or processEvents()
AtPump(f) == f.pc \in {386, 249, 268, 308}

\* an event loop is running innermost and can deliver a click
Delivers == stack # <<>> /\ AtPump(Top) /\ Len(stack) <= MaxNested

\* ------------------------------------------------------------ host inputs
\* ticker_input.text(): the symbols the user types
HostTickers == {"AAA", "BBB"}

\* indicator_combo.addItems(["SMA", "RSI"])
IndicatorTypes == {"SMA", "RSI"}

\* indicator_period_spinbox values the user picks (its range is 1..500)
Periods == {1, 2}

\* what yfinance holds for a symbol: three daily bars for AAA, one for BBB;
\* the closes are 10, 20, 30 so that the rolling means are whole numbers
FetchedIndex(ticker) ==
    IF ticker = "AAA" THEN <<0, 1000 * DAY, 2000 * DAY>> ELSE <<0>>

FetchedRows(index) ==
    [i \in 1..Len(index) |->
        [Open |-> 10, High |-> 10 * i + 2, Low |-> 9, Close |-> 10 * i,
         Volume |-> 100 * i]]

Fetched(ticker) ==
    DataFrame(TRUE, FetchedIndex(ticker), RequiredCols,
              FetchedRows(FetchedIndex(ticker)))

\* pd.DataFrame(): no rows, no columns
EmptyFrame == DataFrame(FALSE, <<>>, {}, <<>>)

\* DataFetcher.fetch_stock_data: the cleaned table, an empty table when
\* yfinance has no data, or a ValueError (network, unknown symbol)
fetch_stock_data(ticker) ==
    { [raises |-> FALSE, frame |-> Fetched(ticker)],
      [raises |-> FALSE, frame |-> EmptyFrame],
      [raises |-> TRUE, frame |-> NoneFrame] }

\* f"{indicator_type.lower()}_{period}"
IndicatorId(indicator_type, period) ==
    IF indicator_type = "SMA" THEN <<"sma_1", "sma_2", "sma_3">>[period]
    ELSE <<"rsi_1", "rsi_2", "rsi_3">>[period]

\* f"{indicator_type}({params['period']})"
IndicatorName(indicator_type, period) ==
    IF indicator_type = "SMA" THEN <<"SMA(1)", "SMA(2)", "SMA(3)">>[period]
    ELSE <<"RSI(1)", "RSI(2)", "RSI(3)">>[period]

RECURSIVE SumOf(_)
SumOf(s) == IF s = <<>> THEN 0 ELSE Head(s) + SumOf(Tail(s))

Closes(df) == [i \in 1..Len(df.rows) |-> df.rows[i].Close]

\* data['Close'].rolling(window=period).mean()
RollingMean(closes, period) ==
    [i \in 1..Len(closes) |->
        IF i < period THEN NaN
        ELSE SumOf(SubSeq(closes, i - period + 1, i)) \div period]

\* IndicatorCalculator.calculate_sma: the series it may return (one)
calculate_sma(df, period) ==
    IF df.isNone \/ IsEmptyFrame(df) THEN {<<>>}
    ELSE IF "Close" \notin df.columns THEN {<<>>}
    ELSE IF period <= 0 THEN {<<>>}
    ELSE IF period > Len(df.rows) THEN {<<>>}
    ELSE {RollingMean(Closes(df), period)}

\* np.random.rand(n) * 100: numbers in [0, 100)
RandomValues == {0, 50}

\* IndicatorCalculator.calculate_rsi: the series it may return; the values
\* are random, the first `period` of them missing
calculate_rsi(df, period) ==
    IF df.isNone \/ IsEmptyFrame(df) THEN {<<>>}
    ELSE IF "Close" \notin df.columns THEN {<<>>}
    ELSE IF period <= 0 THEN {<<>>}
    ELSE IF period >= Len(df.rows) THEN {<<>>}
    ELSE {s \in [1..Len(df.rows) -> RandomValues \cup {NaN}] :
             \A i \in 1..Len(df.rows) : (s[i] = NaN) <=> (i <= period)}

\* ------------------------------------------------------------ host actions
\* pyqtgraph's options when the process starts
PyqtgraphDefaults ==
    [background |-> "k", foreground |-> "d", antialias |-> FALSE]

\* the process at the first line of main(): no window, no ChartManager
InitHost ==
    /\ surface = <<>>
    /\ ticker_label = ""
    /\ price_plot = None
    /\ volume_plot = None
    /\ indicator_plots = EmptyDict
    /\ candlestick_item = NoObject
    /\ volume_item = NoObject
    /\ main_plot_dates = NoObject
    /\ log = "Starting Ava's Awesome Finance App (Refactored UI Edition)..."
    /\ data = <<>>
    /\ picture = NoObject
    /\ raised = ""
    /\ rect = NoObject
    /\ configOptions = PyqtgraphDefaults
    /\ current_data = NoneFrame
    /\ current_ticker = ""
    /\ indicators_config = <<>>
    /\ status = <<>>
    /\ stack = <<Frame("main", 380, "", "")>>

\* main, lines 380-381: the application chooses its colours
main_380 ==
    /\ stack # <<>>
    /\ Top.fn = "main"
    /\ Top.pc = 380
    /\ configOptions' = [configOptions EXCEPT !.background = "QColor(40, 40, 40)",
                                              !.foreground = "w"]
    /\ stack' = SetTop([Top EXCEPT !.pc = 383])
    /\ UNCHANGED <<chartVars, log, itemVars, current_data, current_ticker,
                   indicators_config, status>>

\* ChartManager.__init__ as a call
ChartManager__init__(graphics_widget) ==
    IF graphics_widget # "GraphicsLayoutWidget" THEN
        /\ raised' = "TypeError"
        /\ UNCHANGED <<chartVars, configOptions>>
    ELSE
        /\ raised' = ""
        /\ surface' = <<>>
        /\ ticker_label' = ""
        /\ price_plot' = None
        /\ volume_plot' = None
        /\ indicator_plots' = EmptyDict
        /\ candlestick_item' = NoObject
        /\ volume_item' = NoObject
        /\ main_plot_dates' = NoObject
        /\ configOptions' = [configOptions EXCEPT !.background = "w",
                                                  !.foreground = "k",
                                                  !.antialias = TRUE]

\* AppUI.setup_ui: graphics_widget = pg.GraphicsLayoutWidget(show=True)
graphics_widget == "GraphicsLayoutWidget"

\* main, lines 383-386: FinanceApp() builds the window and its ChartManager,
\* then main enters app.exec()
main_383 ==
    /\ stack # <<>>
    /\ Top.fn = "main"
    /\ Top.pc = 383
    /\ ChartManager__init__(graphics_widget)
    /\ current_data' = NoneFrame
    /\ current_ticker' = ""
    /\ indicators_config' = <<>>
    /\ IF graphics_widget # "GraphicsLayoutWidget"
       THEN UNCHANGED <<log, status>> /\ stack' = <<>>
       ELSE /\ print("Entering the main event loop...")
            /\ status' = <<"Ready.">>
            /\ stack' = SetTop([Top EXCEPT !.pc = 386])
    /\ UNCHANGED <<data, picture, rect>>

\* _request_fetch_and_plot up to its first processEvents() (line 249)
request_fetch_and_plot ==
    /\ Delivers
    /\ \E ticker \in HostTickers :
          /\ print("Request received")
          /\ status' = <<"Fetching", ticker>>
          /\ stack' = Append(stack, Frame("fetch", 249, ticker, ""))
    /\ UNCHANGED <<chartVars, itemVars, configOptions, current_data,
                   current_ticker, indicators_config>>

\* _request_fetch_and_plot from line 251 to its second processEvents()
\* (line 268), or to its return when there is nothing to plot
request_fetch_and_plot_251 ==
    /\ stack # <<>>
    /\ Top.fn = "fetch"
    /\ Top.pc = 249
    /\ current_ticker' = Top.ticker
    /\ indicators_config' = <<>>
    /\ \E fetched \in fetch_stock_data(Top.ticker) :
          IF fetched.raises THEN
              /\ status' = <<"Data Fetch Error", Top.ticker>>
              /\ current_data' = NoneFrame
              /\ clear_chart
              /\ stack' = Pop
          ELSE IF IsEmptyFrame(fetched.frame)
                  \/ ~(RequiredCols \subseteq fetched.frame.columns) THEN
              /\ status' = <<"No data or incomplete OHLCV data found for", Top.ticker>>
              /\ clear_chart
              /\ current_data' = NoneFrame
              /\ stack' = Pop
          ELSE
              /\ print("Successfully fetched and cleaned data points")
              /\ current_data' = fetched.frame
              /\ status' = <<"Plotting", Top.ticker>>
              /\ stack' = SetTop([Top EXCEPT !.pc = 268])
              /\ UNCHANGED chartVars
    /\ UNCHANGED <<itemVars, configOptions>>

\* the message a handler shows after _recalculate_and_plot_all returned
\* (lines 270 and 311)
StatusAfterReplot(f) ==
    IF f.fn = "fetch" THEN <<"plotted successfully.", f.ticker>>
    ELSE <<"Indicators updated.">>

\* _recalculate_and_plot_all, lines 319-325, called by the innermost handler
recalculate_and_plot_all ==
    IF current_data.isNone \/ IsEmptyFrame(current_data) THEN
        /\ print("Cannot plot, no current stock data available.")
        /\ status' = StatusAfterReplot(Top)
        /\ stack' = Pop
        /\ UNCHANGED chartVars
    ELSE
        /\ clear_chart
        /\ stack' = SetTop([Top EXCEPT !.pc = 326])
        /\ UNCHANGED status

\* _request_fetch_and_plot, line 269, after processEvents() returned
request_fetch_and_plot_269 ==
    /\ stack # <<>>
    /\ Top.fn = "fetch"
    /\ Top.pc = 268
    /\ recalculate_and_plot_all
    /\ UNCHANGED <<itemVars, configOptions, current_data, current_ticker,
                   indicators_config>>

\* the duplicate test that lets every request through
AlreadyAdded_Never(indicator_id) == FALSE

\* any(ind['id'] == indicator_id for ind in self.indicators_config)
AlreadyAdded(indicator_id) ==
    \E k \in 1..Len(indicators_config) : indicators_config[k].id = indicator_id

\* _handle_add_indicator_request up to its processEvents() (line 308)
handle_add_indicator_request ==
    /\ Delivers
    /\ \E indicator_type \in IndicatorTypes, period \in Periods :
          LET indicator_id == IndicatorId(indicator_type, period)
              plot_type == IF indicator_type = "SMA" THEN "overlay" ELSE "subplot"
              config == [id |-> indicator_id, type |-> indicator_type,
                         period |-> period, plot_type |-> plot_type]
          IN IF current_data.isNone \/ IsEmptyFrame(current_data) THEN
                 /\ status' = <<"Fetch stock data before adding indicators.">>
                 /\ UNCHANGED <<log, indicators_config, stack>>
             ELSE IF AlreadyAdded(indicator_id) THEN
                 /\ status' = <<"is already added.", indicator_id>>
                 /\ UNCHANGED <<log, indicators_config, stack>>
             ELSE
                 /\ print("Adding indicator request")
                 /\ indicators_config' = Append(indicators_config, config)
                 /\ status' = <<"Added. Replotting...", indicator_id>>
                 /\ stack' = Append(stack, Frame("add", 308, "", indicator_id))
    /\ UNCHANGED <<chartVars, itemVars, configOptions, current_data,
                   current_ticker>>

\* _handle_add_indicator_request, line 310, after processEvents() returned
handle_add_indicator_request_310 ==
    /\ stack # <<>>
    /\ Top.fn = "add"
    /\ Top.pc = 308
    /\ recalculate_and_plot_all
    /\ UNCHANGED <<itemVars, configOptions, current_data, current_ticker,
                   indicators_config>>

\* _recalculate_and_plot_all, line 326
recalculate_and_plot_all_326 ==
    /\ stack # <<>>
    /\ Top.pc = 326
    /\ plot_stock_data(current_data, current_ticker)
    /\ stack' = SetTop([Top EXCEPT !.pc = 328])
    /\ UNCHANGED <<itemVars, configOptions, current_data, current_ticker,
                   indicators_config, status>>

\* _recalculate_and_plot_all, lines 328-334
recalculate_and_plot_all_328 ==
    /\ stack # <<>>
    /\ Top.pc = 328
    /\ IF price_plot = None THEN
          /\ print("Base data plotting failed, skipping indicators.")
          /\ status' = StatusAfterReplot(Top)
          /\ stack' = Pop
       ELSE
          /\ stack' = SetTop([Top EXCEPT !.pc = 336, !.i = 1,
                                         !.next_subplot_row = 2])
          /\ UNCHANGED <<log, status>>
    /\ UNCHANGED <<chartVars, itemVars, configOptions, current_data,
                   current_ticker, indicators_config>>

\* a row counter that stays where it is
NextSubplotRow_Same(row) == row

\* next_subplot_row += 1
NextSubplotRow(row) == row + 1

\* the series the calculator may return for a configured indicator
Calculated(config) ==
    IF config.type = "SMA" THEN calculate_sma(current_data, config.period)
    ELSE calculate_rsi(current_data, config.period)

\* _recalculate_and_plot_all, lines 336-364: one turn of the loop
recalculate_and_plot_all_336 ==
    /\ stack # <<>>
    /\ Top.pc = 336
    /\ Top.i <= Len(indicators_config)
    /\ LET config == indicators_config[Top.i]
           name == IndicatorName(config.type, config.period)
       IN \E calculated_data \in Calculated(config) :
             IF calculated_data = <<>> THEN
                 /\ print("Indicator calculation returned no data.")
                 /\ stack' = SetTop([Top EXCEPT !.i = Top.i + 1])
                 /\ UNCHANGED chartVars
             ELSE IF config.plot_type = "overlay" THEN
                 /\ add_overlay_indicator(config.id, calculated_data, name,
                                          "orange", 2)
                 /\ stack' = SetTop([Top EXCEPT !.i = Top.i + 1])
             ELSE
                 /\ add_subplot_indicator(config.id, calculated_data, name,
                                          config.type, Top.next_subplot_row,
                                          "cyan", 1)
                 /\ stack' = SetTop([Top EXCEPT
                                       !.i = Top.i + 1,
                                       !.next_subplot_row =
                                           NextSubplotRow(Top.next_subplot_row)])
    /\ UNCHANGED <<itemVars, configOptions, current_data, current_ticker,
                   indicators_config, status>>

\* _recalculate_and_plot_all, line 366, and the caller's last line (270, 311)
recalculate_and_plot_all_366 ==
    /\ stack # <<>>
    /\ Top.pc = 336
    /\ Top.i > Len(indicators_config)
    /\ print("Recalculation and plotting complete.")
    /\ status' = StatusAfterReplot(Top)
    /\ stack' = Pop
    /\ UNCHANGED <<chartVars, itemVars, configOptions, current_data,
                   current_ticker, indicators_config>>

NextHost ==
    \/ main_380
    \/ main_383
    \/ request_fetch_and_plot
    \/ request_fetch_and_plot_251
    \/ request_fetch_and_plot_269
    \/ handle_add_indicator_request
    \/ handle_add_indicator_request_310
    \/ recalculate_and_plot_all_326
    \/ recalculate_and_plot_all_328
    \/ recalculate_and_plot_all_336
    \/ recalculate_and_plot_all_366

SpecHost == InitHost /\ [][NextHost]_vars

\* ===================================================== layout engine claims
RowsOfKind(kind) == {i \in 1..Len(surface) : surface[i].kind = kind}

PriceRows == RowsOfKind("price")

VolumeRows == RowsOfKind("volume")

IndicatorRows == RowsOfKind("indicator")

Labels == RowsOfKind("label")

PriceRowsBefore(i) == {j \in PriceRows : j < i}

\* nothing of a plot is referenced by the engine and no row is on the surface
EmptyState ==
    /\ price_plot = None
    /\ volume_plot = None
    /\ candlestick_item = NoObject
    /\ volume_item = NoObject
    /\ indicator_plots = EmptyDict
    /\ main_plot_dates = NoObject
    /\ PriceRows = {}
    /\ VolumeRows = {}
    /\ IndicatorRows = {}

\* the tables plot_stock_data rejects in its preparation step
MalformedFrames == {df \in RejectedFrames : ~df.isNone /\ Len(df.index) > 0}

AddsIndicator(values) ==
    \E id \in IndicatorIds :
        \/ add_overlay_indicator(id, values, NameOf(id), ColorOf(id), 2)
        \/ \E row_index \in RowIndexes :
              add_subplot_indicator(id, values, NameOf(id), "RSI", row_index, "cyan", 1)

\* C1 as stated: every volume row and every indicator row on the surface is
\* linked to the current price row and shows the same time window.
C1_RowsFollowCurrentPriceRow ==
    \A i \in VolumeRows \cup IndicatorRows :
        /\ price_plot # None
        /\ surface[i].xlink = price_plot
        /\ surface[i].xrange = surface[price_plot].xrange

\* C1 amended: every volume row and every indicator row on the surface is
\* linked to the price row created last before it, which is still on the
\* surface, and shows the same time window as that row; when the surface holds
\* a single price row, that row is the current one.
C1_RowsFollowPriceRowOfTheirPlot ==
    \A i \in VolumeRows \cup IndicatorRows :
        /\ PriceRowsBefore(i) # {}
        /\ surface[i].xlink = SetMax(PriceRowsBefore(i))
        /\ surface[i].xrange = surface[surface[i].xlink].xrange
        /\ Cardinality(PriceRows) = 1 => surface[i].xlink = price_plot

\* two indicator rows, one of them no longer referenced by a handle, after
\* the visible range was set
C1_Witness ==
    /\ log = "Setting view range"
    /\ Cardinality(PriceRows) = 1
    /\ Cardinality(IndicatorRows) = 2
    /\ Cardinality(DOMAIN indicator_plots) = 1

\* C2: clear_chart leaves the engine empty whatever the state it is called
\* in, and a second clear_chart changes nothing.
C2_ClearLeavesEmpty ==
    [][clear_chart =>
          /\ EmptyState'
          /\ surface' = <<>>
          /\ ticker_label' = ""
          /\ log = "Clearing chart..." => UNCHANGED vars]_vars

C2_Witness ==
    /\ log = "Clearing chart..."
    /\ EmptyState
    /\ surface = <<>>
    /\ ticker_label = ""

\* C3: plot_stock_data with a valid table, called right after clear_chart,
\* leaves exactly one price row, one volume row, no indicator row and an
\* empty handle map.
C3_ClearThenPlotBase ==
    [][\A df \in ValidFrames, ticker \in Tickers :
          (log = "Clearing chart..." /\ plot_stock_data(df, ticker)) =>
             /\ Cardinality(PriceRows') = 1
             /\ Cardinality(VolumeRows') = 1
             /\ IndicatorRows' = {}
             /\ indicator_plots' = EmptyDict]_vars

C3_Witness ==
    /\ log = "Main stock data plotted successfully (Candlestick & Volume)."
    /\ price_plot = 1
    /\ volume_plot = 2
    /\ Len(surface) = 2
    /\ indicator_plots = EmptyDict

\* C4: in the empty state, plot_stock_data with None, an empty table, a table
\* without a time index or a table missing a required column only adds a
\* placeholder label and leaves the state empty; an add_overlay_indicator or
\* add_subplot_indicator that follows changes nothing.
C4_RejectedPlotBaseStaysEmpty ==
    [][/\ \A df \in RejectedFrames, ticker \in Tickers :
             (EmptyState /\ plot_stock_data(df, ticker)) =>
                /\ EmptyState'
                /\ Len(surface') = Len(surface) + 1
                /\ SubSeq(surface', 1, Len(surface)) = surface
                /\ surface'[Len(surface')].kind = "label"
       /\ (EmptyState /\ Labels # {} /\ \E values \in Series : AddsIndicator(values))
             => UNCHANGED chartVars]_vars

C4_Witness ==
    /\ log \in {"Warning (Overlay): Cannot add overlay. Main price plot does not exist.",
                "Warning (Subplot): Cannot add subplot. Main price plot does not exist."}
    /\ EmptyState
    /\ Len(surface) = 1
    /\ surface[1].text = <<"Error preparing data for", "AAA">>

\* C5 as stated: a plot_stock_data call rejected for a missing column or a
\* wrong index type leaves the ticker label, the remembered timestamps, the
\* row references, the candle renderer and the handle map as they were.
C5_RejectedPlotBaseChangesNothing ==
    [][\A df \in MalformedFrames, ticker \in Tickers :
          plot_stock_data(df, ticker) =>
             UNCHANGED <<ticker_label, main_plot_dates, price_plot, volume_plot,
                         candlestick_item, indicator_plots>>]_vars

\* C6 as stated: plot_stock_data with a valid table, called while a plot is
\* shown, leaves exactly one price row, one volume row and an empty handle map.
C6_PlotBaseClearsPriorState ==
    [][\A df \in ValidFrames, ticker \in Tickers :
          (price_plot # None /\ plot_stock_data(df, ticker)) =>
             /\ Cardinality(PriceRows') = 1
             /\ Cardinality(VolumeRows') = 1
             /\ indicator_plots' = EmptyDict]_vars

\* C6 amended: plot_stock_data with a valid table, called while a plot is
\* shown, keeps every item of the surface and the handle map as they are and
\* adds a new price row and a new volume row, which become the current ones.
C6_PlotBaseKeepsPriorState ==
    [][\A df \in ValidFrames, ticker \in Tickers :
          (price_plot # None /\ plot_stock_data(df, ticker)) =>
             /\ Len(surface') = Len(surface) + 2
             /\ SubSeq(surface', 1, Len(surface)) = surface
             /\ surface'[Len(surface) + 1].kind = "price"
             /\ surface'[Len(surface) + 2].kind = "volume"
             /\ price_plot' = Len(surface) + 1
             /\ volume_plot' = Len(surface) + 2
             /\ indicator_plots' = indicator_plots]_vars

\* a second plot on top of a plot with an indicator: two price rows, two
\* volume rows, and the handle of the first plot's indicator still stored
C6_Witness ==
    /\ log = "Main stock data plotted successfully (Candlestick & Volume)."
    /\ Cardinality(PriceRows) = 2
    /\ Cardinality(VolumeRows) = 2
    /\ indicator_plots # EmptyDict
    /\ \A k \in DOMAIN indicator_plots : indicator_plots[k].plot < price_plot

\* C7: add_overlay_indicator and add_subplot_indicator called while a plot is
\* shown with a series shorter or longer than the remembered timestamps leave
\* the surface (rows and curves) and the handle map unchanged.
C7_LengthMismatchIsNoOp ==
    [][\/ UNCHANGED <<surface, indicator_plots>>
       \/ ~(/\ price_plot # None
            /\ main_plot_dates # NoObject
            /\ \E values \in Series :
                  /\ Len(values) # Len(main_plot_dates[1])
                  /\ AddsIndicator(values))]_vars

\* a longer series was rejected while an indicator was shown
C7_Witness ==
    /\ log \in {"Warning (Overlay): Mismatched data lengths or missing main plot dates.",
                "Warning (Subplot): Mismatched data lengths or missing main plot dates."}
    /\ price_plot # None
    /\ Len(main_plot_dates[1]) < MaxValues
    /\ indicator_plots # EmptyDict

\* C8: add_overlay_indicator and add_subplot_indicator called with a series
\* of the right length whose values are all missing leave the surface and the
\* handle map unchanged.
C8_AllMissingIsNoOp ==
    [][\/ UNCHANGED <<surface, indicator_plots>>
       \/ ~(/\ price_plot # None
            /\ main_plot_dates # NoObject
            /\ \E values \in Series :
                  /\ Len(values) = Len(main_plot_dates[1])
                  /\ \A i \in 1..Len(values) : values[i] = NaN
                  /\ AddsIndicator(values))]_vars

\* an all-missing series was rejected while a handle was stored under every id
C8_Witness ==
    /\ log \in {"Warning (Overlay): All indicator values are NaN, skipping plot.",
                "Warning (Subplot): All indicator values are NaN, skipping plot."}
    /\ DOMAIN indicator_plots = IndicatorIds

NonMissing(values) == {i \in 1..Len(values) : values[i] # NaN}

\* the k-th smallest position of a set of positions
NthOf(P, k) == CHOOSE i \in P : Cardinality({j \in P : j < i}) = k - 1

\* the curve has one point per non-missing position, in position order
IsCurveOf(curve, dates, values) ==
    LET P == NonMissing(values)
    IN /\ Len(curve.x) = Cardinality(P)
       /\ Len(curve.y) = Cardinality(P)
       /\ \A k \in 1..Cardinality(P) :
             /\ curve.x[k] = dates[NthOf(P, k)]
             /\ curve.y[k] = values[NthOf(P, k)]

\* C9: for a series as long as the remembered timestamps with a non-missing
\* value, the curve add_overlay_indicator adds to the price row, and the
\* curve of the row add_subplot_indicator adds, has one point per non-missing
\* position i, at x = timestamp i and y = value i, in position order.
C9_CurveHasThePointsOfTheSeries ==
    [][\A id \in IndicatorIds, values \in Series :
          (/\ price_plot # None
           /\ main_plot_dates # NoObject
           /\ Len(values) = Len(main_plot_dates[1])
           /\ NonMissing(values) # {}) =>
             /\ add_overlay_indicator(id, values, NameOf(id), ColorOf(id), 2) =>
                   LET curves == surface'[price_plot].curves
                   IN /\ Len(curves) = Len(surface[price_plot].curves) + 1
                      /\ IsCurveOf(curves[Len(curves)], main_plot_dates[1], values)
             /\ \A row_index \in RowIndexes :
                   add_subplot_indicator(id, values, NameOf(id), "RSI", row_index, "cyan", 1) =>
                      /\ Len(surface') = Len(surface) + 1
                      /\ surface'[Len(surface')].kind = "indicator"
                      /\ Len(surface'[Len(surface')].curves) = 1
                      /\ IsCurveOf(surface'[Len(surface')].curves[1],
                                   main_plot_dates[1], values)]_vars

\* an overlay curve and a subplot curve with the first of two positions missing
C9_Witness ==
    /\ price_plot # None
    /\ Len(main_plot_dates[1]) = 2
    /\ \E c \in Range(surface[price_plot].curves) :
          c.x = <<main_plot_dates[1][2]>> /\ c.y = <<ValueAt(2)>>
    /\ \E i \in IndicatorRows :
          /\ surface[i].curves[1].x = <<main_plot_dates[1][2]>>
          /\ surface[i].curves[1].y = <<ValueAt(2)>>

\* ========================================================== renderer claims
\* positions whose timestamp difference to the next candle is positive
PositiveDeltas == {i \in 1..(Len(data) - 1) : data[i + 1].t - data[i].t > 0}

Delta(i) == data[i + 1].t - data[i].t

\* the k-th smallest of the positive differences
KthDelta(k) ==
    LET v == CHOOSE x \in {Delta(i) : i \in PositiveDeltas} :
                 /\ Cardinality({i \in PositiveDeltas : Delta(i) < x}) < k
                 /\ Cardinality({i \in PositiveDeltas : Delta(i) <= x}) >= k
    IN v

\* twice the median of the positive differences
TwiceMedianDelta ==
    LET n == Cardinality(PositiveDeltas)
    IN IF n % 2 = 1 THEN 2 * KthDelta((n + 1) \div 2)
       ELSE KthDelta(n \div 2) + KthDelta(n \div 2 + 1)

\* C10: for two or more candles with a positive adjacent timestamp
\* difference, the width of the picture is the smaller of 0.7 times the median
\* of the positive differences and 0.7 * 5 * 86400 (widths in twentieths).
C10_WidthIsCappedMedian ==
    (Len(data) >= 2 /\ PositiveDeltas # {}) =>
        /\ picture # NoObject
        /\ picture[1].w = Min2(7 * TwiceMedianDelta, 14 * 5 * DAY)

\* three candles, a zero difference and a positive one, drawn below the cap
C10_Witness ==
    /\ Len(data) = 3
    /\ Cardinality(PositiveDeltas) = 1
    /\ \E i \in 1..2 : Delta(i) = 0
    /\ picture # NoObject
    /\ picture[1].w = 7 * 2 * DAY

\* C11: the width of the picture is 0.7 * 86400 for exactly one candle and for
\* two or more candles whose adjacent timestamp differences are all zero or
\* negative; it is 0 for no candle and positive for every non-empty series
\* (widths in twentieths).
C11_DefaultWidth ==
    picture # NoObject =>
        /\ data = <<>> => picture[1].w = 0
        /\ Len(data) = 1 => picture[1].w = 14 * DAY
        /\ (Len(data) >= 2 /\ PositiveDeltas = {}) => picture[1].w = 14 * DAY
        /\ data # <<>> => picture[1].w > 0

\* two or more well-formed candles, no positive difference, drawn at the
\* default width
C11_Witness ==
    /\ Len(data) >= 2
    /\ PositiveDeltas = {}
    /\ raised = ""
    /\ picture # NoObject
    /\ picture[1].w = 14 * DAY
    /\ Len(picture[1].cmds) = 3 * Len(data)

\* every candle of the series has its five keys
WellFormed == FirstMalformed(data) = 0

\* the extremes over the candles of a well-formed series
MinT == SetMin({data[i].t : i \in 1..Len(data)})
MaxT == SetMax({data[i].t : i \in 1..Len(data)})
MinLow == SetMin({data[i].l : i \in 1..Len(data)})
MaxHigh == SetMax({data[i].h : i \in 1..Len(data)})

\* C12 as stated: for every non-empty series, one with equal or decreasing
\* timestamps included, the rectangle returned by boundingRect spans from the
\* least timestamp minus half the width to the greatest timestamp plus half
\* the width, the width being the one the picture of the same series is drawn
\* with (x in fortieths, widths in twentieths).
C12_RectSpansTimestamps ==
    (rect # NoObject /\ data # <<>> /\ WellFormed /\ picture # NoObject) =>
        /\ rect[1].left = 40 * MinT - picture[1].w
        /\ rect[1].left + rect[1].width = 40 * MaxT + picture[1].w

\* C13 as stated: for every non-empty series, one with a candle whose low is
\* above its high included, the vertical span of the rectangle returned by
\* boundingRect contains the high and the low of every candle, and its height
\* is 1 when the greatest high equals the least low.
C13_RectContainsHighsAndLows ==
    (rect # NoObject /\ data # <<>> /\ WellFormed) =>
        /\ \A i \in 1..Len(data) :
              /\ rect[1].top <= data[i].l
              /\ data[i].l <= rect[1].top + rect[1].height
              /\ rect[1].top <= data[i].h
              /\ data[i].h <= rect[1].top + rect[1].height
        /\ MaxHigh = MinLow => rect[1].height = 1

\* C14 as stated: for every timestamp sequence plot_stock_data accepts, one
\* without a positive adjacent difference included, the width of the volume
\* bars equals the width of the candle bodies (widths in twentieths).
C14_VolumeWidthIsCandleWidth ==
    (volume_item # NoObject /\ candlestick_item # NoObject) =>
        volume_item[1].width = candlestick_item[1].picture[1].w

\* the commands the picture holds for the i-th candle
CommandsOf(i) == {picture[1].cmds[j] : j \in (3 * i - 2)..(3 * i)}

\* the rectangles and the horizontal strokes among them
RectsOf(i) == {k \in CommandsOf(i) : k.cmd = "rect"}
TicksOf(i) == {k \in CommandsOf(i) : k.cmd = "line" /\ k.x1 # k.x2}

\* C15: the body of a drawn candle depends on close against open only: for
\* close above open one rectangle outlined in the up colour and not filled,
\* for close below open one rectangle filled in the down colour and not
\* outlined, for close equal to open no rectangle but one horizontal stroke
\* at the open in the down colour; each candle gets exactly one of the three.
C15_BodyFollowsCloseAndOpen ==
    (picture # NoObject /\ picture[1].ended) =>
        /\ Len(picture[1].cmds) = 3 * Len(data)
        /\ \A i \in 1..Len(data) :
              /\ Cardinality(RectsOf(i)) + Cardinality(TicksOf(i)) = 1
              /\ data[i].c > data[i].o =>
                    \E k \in RectsOf(i) : k.pen = "up" /\ k.brush = "none"
              /\ data[i].c < data[i].o =>
                    \E k \in RectsOf(i) : k.pen = "none" /\ k.brush = "down"
              /\ data[i].c = data[i].o =>
                    \E k \in TicksOf(i) :
                        k.pen = "down" /\ k.y1 = data[i].o /\ k.y2 = data[i].o

\* a drawn series with an up, a flat and a down candle
C15_Witness ==
    /\ picture # NoObject
    /\ picture[1].ended
    /\ Len(data) = 3
    /\ data[1].c > data[1].o
    /\ data[2].c = data[2].o
    /\ data[3].c < data[3].o
    /\ Len(picture[1].cmds) = 9
    /\ picture[1].cmds[6].cmd = "line"
    /\ picture[1].cmds[9].cmd = "rect"

AddingLines == {"Adding overlay indicator", "Adding subplot indicator"}

\* an indicator call with the given id and series
AddsWith(id, values) ==
    \/ add_overlay_indicator(id, values, NameOf(id), ColorOf(id), 2)
    \/ \E row_index \in RowIndexes :
          add_subplot_indicator(id, values, NameOf(id), "RSI", row_index, "cyan", 1)

\* the indicator artifacts drawn on a surface: indicator rows and the curves
\* laid over price rows
ArtifactsOn(surf) ==
    UNION {IF surf[i].kind = "indicator" THEN {<<i, 0>>}
           ELSE IF surf[i].kind = "price"
                THEN {<<i, k>> : k \in 1..Len(surf[i].curves)}
                ELSE {} : i \in 1..Len(surf)}

\* the artifact a handle stands for
ArtifactOf(h) == IF h.isPlotItem THEN <<h.plot, 0>> ELSE <<h.plot, h.curve>>

\* C17: an indicator call that draws, made with an id the handle map already
\* has, puts the handle of the new artifact under the id and leaves the
\* artifact of the old handle on the surface as it was: one more indicator
\* artifact is drawn and the map has the same ids.
C17_ReusedIdReplacesHandle ==
    [][(log' \in AddingLines) =>
          \A id \in DOMAIN indicator_plots, values \in Series :
             AddsWith(id, values) =>
                /\ DOMAIN indicator_plots' = DOMAIN indicator_plots
                /\ ArtifactOf(indicator_plots'[id]) \in ArtifactsOn(surface')
                /\ ArtifactOf(indicator_plots'[id]) \notin ArtifactsOn(surface)
                /\ ArtifactOf(indicator_plots[id]) \in ArtifactsOn(surface')
                /\ ArtifactsOn(surface) \subseteq ArtifactsOn(surface')
                /\ Cardinality(ArtifactsOn(surface')) = Cardinality(ArtifactsOn(surface)) + 1
                /\ \A i \in 1..Len(surface) :
                      /\ surface'[i].kind = surface[i].kind
                      /\ SubSeq(surface'[i].curves, 1, Len(surface[i].curves))
                            = surface[i].curves]_vars

\* an indicator was drawn, more artifacts are on the surface than the map
\* has handles, and a handle stands for the newest artifact
C17_Witness ==
    /\ log \in AddingLines
    /\ price_plot # None
    /\ Cardinality(ArtifactsOn(surface)) > Cardinality(DOMAIN indicator_plots)
    /\ \E id \in DOMAIN indicator_plots :
          \/ ArtifactOf(indicator_plots[id]) = <<Len(surface), 0>>
          \/ ArtifactOf(indicator_plots[id])
                = <<price_plot, Len(surface[price_plot].curves)>>

\* C18: add_subplot_indicator, when it draws, puts exactly one new indicator
\* row on the surface, at the given row index and linked to the price row,
\* and stores the row under the id; the rows already on the surface (price
\* and volume row among them), the candle renderer, the remembered
\* timestamps, the ticker label and the handles under other ids stay as they
\* were, and afterwards a plot is shown with at least one indicator handle.
C18_SubplotAddsOneLinkedRow ==
    [][(log' = "Adding subplot indicator") =>
          \A id \in IndicatorIds, values \in Series, row_index \in RowIndexes :
             add_subplot_indicator(id, values, NameOf(id), "RSI", row_index, "cyan", 1) =>
                /\ Len(surface') = Len(surface) + 1
                /\ \A i \in 1..Len(surface) : surface'[i] = surface[i]
                /\ surface'[Len(surface')].kind = "indicator"
                /\ surface'[Len(surface')].row = row_index
                /\ surface'[Len(surface')].xlink = price_plot
                /\ surface'[Len(surface')].xrange = surface[price_plot].xrange
                /\ DOMAIN indicator_plots' = DOMAIN indicator_plots \cup {id}
                /\ indicator_plots'[id].isPlotItem
                /\ indicator_plots'[id].plot = Len(surface')
                /\ \A k \in DOMAIN indicator_plots \ {id} :
                      indicator_plots'[k] = indicator_plots[k]
                /\ UNCHANGED <<price_plot, volume_plot, candlestick_item,
                               volume_item, main_plot_dates, ticker_label>>
                /\ price_plot' # None
                /\ indicator_plots' # EmptyDict]_vars

\* a subplot was drawn while a handle was stored under the other id
C18_Witness ==
    /\ log = "Adding subplot indicator"
    /\ price_plot # None
    /\ surface[Len(surface)].kind = "indicator"
    /\ surface[Len(surface)].row \in RowIndexes
    /\ surface[Len(surface)].xlink = price_plot
    /\ DOMAIN indicator_plots = IndicatorIds
    /\ \E id \in IndicatorIds :
          /\ indicator_plots[id].isPlotItem
          /\ indicator_plots[id].plot = Len(surface)

\* C19 as stated: with a series that holds a candle lacking one of its five
\* fields, neither the construction of the renderer nor setData lets an
\* exception escape, and the renderer is left with an empty picture.
C19_MalformedCandleIsCaught ==
    (data # <<>> /\ ~WellFormed) =>
        /\ raised \notin {"__init__", "setData"}
        /\ picture # NoObject => picture[1].cmds = <<>>

\* C20 as stated: boundingRect returns the null rectangle for no candle and
\* for a series that holds a candle lacking a field, and a rectangle with a
\* positive width and height for every well-formed series that is not empty.
C20_RectIsNullOnlyWithoutUsableData ==
    rect # NoObject =>
        /\ raised = ""
        /\ (data = <<>> \/ ~WellFormed) => rect[1] = NullRect
        /\ (data # <<>> /\ WellFormed) => (rect[1].width > 0 /\ rect[1].height > 0)

\* ============================================================ cache claims
\* C21: whatever setData calls were made, the picture is the one drawn from
\* the series supplied last (three commands per candle, at the timestamp and
\* with the high and the low of that candle), the rectangle boundingRect
\* returned is the one of that series, and paint never regenerates a picture
\* that is there, so that it lets no exception escape; with an empty series
\* nothing is raised, the picture is empty and the rectangle is the null one.
C21_CacheIsOfLatestSeries ==
    /\ picture # NoObject
    /\ raised # "paint"
    /\ WellFormed =>
          /\ raised = ""
          /\ picture[1].ended
          /\ Len(picture[1].cmds) = 3 * Len(data)
          /\ \A i \in 1..Len(data) :
                /\ picture[1].cmds[3 * i - 2].x1 = 40 * data[i].t
                /\ picture[1].cmds[3 * i - 2].y1 = data[i].h
                /\ picture[1].cmds[3 * i - 1].y1 = data[i].l
                /\ picture[1].cmds[3 * i].y1 = data[i].o
    /\ rect # NoObject => rect[1] = boundingRect(data)
    /\ data = <<>> =>
          /\ picture[1].cmds = <<>>
          /\ picture[1].w = 0
          /\ rect # NoObject => rect[1] = NullRect

\* a series given by setData after one whose rectangle could not be computed:
\* the picture and the rectangle are those of the new series
C21_Witness ==
    /\ log = "Error calculating bounding rect for CandlestickItem"
    /\ Len(data) = 2
    /\ WellFormed
    /\ PositiveDeltas # {}
    /\ picture # NoObject
    /\ Len(picture[1].cmds) = 6
    /\ rect # NoObject
    /\ rect[1].width > 0

\* ============================================================ window claims
\* C22 as stated: after plot_stock_data has plotted a table, the x range of
\* the price row is the span from the least to the greatest timestamp of the
\* table widened by 2% on each side, so that it holds the timestamp of every
\* bar, in whatever order the table has them, and the y auto-range is enabled
\* on the price row and on the volume row (ranges in hundredths).
C22_WindowHoldsEveryCandle ==
    [][\A df \in ThreeDays, ticker \in Tickers :
          plot_stock_data(df, ticker) =>
             LET dates == Range(main_plot_dates'[1])
                 window == surface'[price_plot'].xrange
                 span == SetMax(dates) - SetMin(dates)
             IN /\ window = <<100 * SetMin(dates) - 2 * span,
                              100 * SetMax(dates) + 2 * span>>
                /\ \A t \in dates : window[1] <= 100 * t /\ 100 * t <= window[2]
                /\ surface'[price_plot'].autoY
                /\ surface'[volume_plot'].autoY]_vars

\* ======================================================= empty state claims
\* C23: in the empty state (at the start, after clear_chart, after a rejected
\* plot_stock_data) add_overlay_indicator, add_subplot_indicator and
\* set_view_range, whatever their arguments, change nothing of the engine and
\* of the surface: no row, no curve, no handle.
C23_EmptyStateCallsAreNoOps ==
    [][\/ UNCHANGED chartVars
       \/ ~(/\ EmptyState
            /\ \/ \E values \in Series : AddsIndicator(values)
               \/ \E start_ts \in ViewStarts, end_ts \in ViewEnds :
                     set_view_range(start_ts, end_ts))]_vars

\* a subplot was refused on a surface without anything on it
C23_Witness ==
    /\ log = "Warning (Subplot): Cannot add subplot. Main price plot does not exist."
    /\ EmptyState
    /\ surface = <<>>
    /\ ticker_label = ""

\* ======================================================== presence claims
\* C26: between the calls of ChartManager, the price row, the volume row, the
\* candle renderer, the volume item and the remembered timestamps are all
\* there or all missing, the rows being a price and a volume row of the
\* surface, and the handle map holds something only when they are there.
C26_AllPresentOrAllAbsent ==
    /\ (volume_plot # None) = (price_plot # None)
    /\ (candlestick_item # NoObject) = (price_plot # None)
    /\ (volume_item # NoObject) = (price_plot # None)
    /\ (main_plot_dates # NoObject) = (price_plot # None)
    /\ price_plot # None =>
          /\ price_plot \in PriceRows
          /\ volume_plot \in VolumeRows
    /\ indicator_plots # EmptyDict => price_plot # None

\* a table was rejected while a plot with an indicator was shown
C26_Witness ==
    /\ log = "Error preparing stock data for plotting"
    /\ price_plot # None
    /\ volume_plot # None
    /\ candlestick_item # NoObject
    /\ main_plot_dates # NoObject
    /\ indicator_plots # EmptyDict
    /\ Labels # {}

\* ============================================================ host claims
\* the indicator rows of the surface, in the order they were created
SubplotRows == SelectSeq(surface, LAMBDA it : it.kind = "indicator")

\* the subplot entries the loop of the replot in progress has displayed
SubplotsDone ==
    SelectSeq(SubSeq(indicators_config, 1, Top.i - 1),
              LAMBDA c : c.plot_type = "subplot" /\ c.id \in DOMAIN indicator_plots)

\* C24: in every replot of the host the subplot indicators get the row
\* indices 2, 3, 4, ... in the order of the configuration: the k-th
\* indicator row of the surface is at index k + 1 and shows the k-th
\* displayed subplot entry, and the index the loop passes next is the one
\* after the last occupied row (so never 0 or 1, never one in use).
C24_SubplotRowsCountFromTwo ==
    /\ \A k \in 1..Len(SubplotRows) : SubplotRows[k].row = k + 1
    /\ (stack # <<>> /\ Top.pc = 336) =>
          /\ Top.next_subplot_row = Len(SubplotRows) + 2
          /\ Len(SubplotsDone) = Len(SubplotRows)
          /\ \A k \in 1..Len(SubplotRows) :
                SubplotRows[k].text =
                    <<IndicatorName(SubplotsDone[k].type, SubplotsDone[k].period)>>

\* a replot with two subplot indicators, the later configured one first asked
C24_Witness ==
    /\ stack # <<>>
    /\ Top.pc = 336
    /\ Top.i = 4
    /\ Len(indicators_config) = 3
    /\ indicators_config[1].id = "rsi_2"
    /\ indicators_config[3].id = "rsi_1"
    /\ Len(SubplotRows) = 2
    /\ SubplotRows[2].row = 3
    /\ SubplotRows[2].text = <<"RSI(1)">>

\* a frame inside _recalculate_and_plot_all, between its clear_chart and its
\* return
InReplot(f) == f.pc \in {326, 328, 336}

\* C25: the handlers pump the event loop, so handlers nest, but no call of
\* ChartManager starts while another call is in progress and every replot
\* (clear, plot of the base data, one call per indicator) runs to its end
\* with no step of another handler in between: a frame that waits under
\* another is never inside a replot, and while the innermost frame is inside
\* a replot every step is a step of that frame.
C25_ReplotIsNotInterleaved ==
    [][/\ \A k \in 1..(Len(stack) - 1) : ~InReplot(stack[k])
       /\ (stack # <<>> /\ InReplot(Top)) =>
             /\ Len(stack') <= Len(stack)
             /\ SubSeq(stack', 1, Len(stack) - 1) = Pop
             /\ Len(stack') = Len(stack) =>
                   /\ stack'[Len(stack)].fn = Top.fn
                   /\ stack'[Len(stack)].ticker = Top.ticker
                   /\ stack'[Len(stack)].indicator_id = Top.indicator_id
                   /\ stack'[Len(stack)].pc \in {328, 336}
             /\ UNCHANGED <<current_data, current_ticker, indicators_config>>]_vars

\* an add-indicator handler that started from the second event pump of a
\* fetch is in the loop of its replot with an indicator drawn, while the
\* fetch waits
C25_Witness ==
    /\ Len(stack) = 3
    /\ stack[2].fn = "fetch"
    /\ stack[2].pc = 268
    /\ Top.fn = "add"
    /\ Top.pc = 336
    /\ price_plot # None
    /\ indicator_plots # EmptyDict

\* C27: whatever fetch and add-indicator requests arrive, nested ones
\* included, indicators_config never holds two entries with the same id; so
\* the loop of a replot never passes ChartManager an id that has a handle
\* since the last clear, and no call replaces the handle of an id.
C27_IdsAreUnique ==
    [][/\ \A j, k \in 1..Len(indicators_config') :
             indicators_config'[j].id = indicators_config'[k].id => j = k
       /\ (stack # <<>> /\ Top.pc = 336 /\ Top.i <= Len(indicators_config)) =>
             indicators_config[Top.i].id \notin DOMAIN indicator_plots
       /\ \A id \in (DOMAIN indicator_plots) \cap (DOMAIN indicator_plots') :
             indicator_plots'[id] = indicator_plots[id]]_vars

\* the request for an indicator was repeated from the event pump of the
\* handler that is adding it, and was turned down
C27_Witness ==
    /\ Len(stack) = 2
    /\ Top.fn = "add"
    /\ Top.pc = 308
    /\ Top.indicator_id = "rsi_1"
    /\ status = <<"is already added.", "rsi_1">>
    /\ Len(indicators_config) = 2
    /\ indicators_config[2].id = "rsi_1"

\* C28: whenever the add-indicator handler accepted a new indicator
\* (appended it to the configuration) and returns reporting "Indicators
\* updated.", the chart holds a handle for the id it accepted.
C28_AcceptedIndicatorIsDisplayed ==
    [][(/\ stack # <<>>
        /\ Top.fn = "add"
        /\ stack' = Pop
        /\ status' = <<"Indicators updated.">>)
          => Top.indicator_id \in DOMAIN indicator_plots']_vars

\* C29: whenever the fetch handler reports its ticker as plotted
\* successfully, the chart shows a plot (a price row exists) and what is
\* plotted is the table that handler fetched for that ticker.
C29_ReportedTickerIsPlotted ==
    [][(/\ stack # <<>>
        /\ Top.fn = "fetch"
        /\ stack' = Pop
        /\ status' = <<"plotted successfully.", Top.ticker>>)
          => /\ price_plot' # None
             /\ ticker_label' = Top.ticker
             /\ main_plot_dates' = Some(ToUnixSeconds(Fetched(Top.ticker).index))]_vars

\* C30: constructing the ChartManager leaves pyqtgraph's process-wide options
\* as they were, and the background and foreground the application set
\* before it built its window are in effect when plot rows are created.
C30_ConstructionKeepsConfiguration ==
    [][/\ (stack # <<>> /\ Top.fn = "main" /\ Top.pc = 383) =>
             configOptions' = configOptions
       /\ (price_plot = None /\ price_plot' # None) =>
             /\ configOptions'.background = "QColor(40, 40, 40)"
             /\ configOptions'.foreground = "w"]_vars

====
